---- MODULE Spec2Model ----
(***************************************************************************)
(* Model of amazonredshift_blueprints: the CSV import CLI (upload_file.py) *)
(* and the CSV export CLI (store_query_results.py).                        *)
(*                                                                         *)
(* Four specifications share the module:                                   *)
(*   SpecImport  upload_file.main / upload_data against the warehouse      *)
(*   SpecExport  store_query_results.main / create_csv against a file      *)
(*   SpecArgs    get_args and the connection descriptor of both CLIs       *)
(*   SpecTypes   map_datatypes / create_table_query                        *)
(* Tables hold, per source of rows, the number of rows of that source, so  *)
(* the chunk size keeps its real value.                                    *)
(***************************************************************************)
EXTENDS Integers, Sequences, FiniteSets, TLC

VARIABLES
    \* ---- import (upload_file.py) ----
    fsize,          \* CSV files on disk: file -> number of data rows
    db0,            \* the warehouse as it was before the first run
    pub,            \* public.<table>: the table to_sql writes
    sch,            \* <schema>.<table>
    schema_exists,  \* whether <schema> exists
    cmd,            \* the command line of the import (same for every run)
    runs,           \* number of runs of main started so far
    pc,             \* position of the import process
    fileIdx,        \* main's loop over matching_file_names (1-based)
    index,          \* upload_data's chunk index
    insert_method,  \* upload_data's local insert_method
    log,            \* to_sql calls of the current run, in order
    written,        \* rows of the current file written by the current call
    \* ---- export (store_query_results.py) ----
    xpc,            \* position of the export process
    xargs,          \* --file-header as given on the command line (None: omitted)
    nrows,          \* number of rows the query returns
    file0,          \* the destination path before the run
    file,           \* the destination path now
    file_header,    \* main's file_header
    csv_header,     \* create_csv's file_header parameter
    i,              \* create_csv's chunk counter
    \* ---- argument handling (both CLIs) ----
    apc,            \* position of the argument handling
    cli,            \* which CLI runs: upload_file or store_query_results
    argv,           \* the connection flags given (None: omitted)
    environ,        \* os.environ's DB_CONNECTION_URL (None: unset)
    descriptor,     \* what main hands to create_engine
    \* ---- type mapping ----
    tpc,            \* position of create_table_query
    dtypes,         \* str(df[col].dtype) of the chunk's columns, in order
    columns         \* the SQL type create_table_query gives each column

importVars == <<fsize, db0, pub, sch, schema_exists, cmd, runs, pc, fileIdx,
                index, insert_method, log, written>>
exportVars == <<xpc, xargs, nrows, file0, file, file_header, csv_header, i>>
argsVars   == <<apc, cli, argv, environ, descriptor>>
typesVars  == <<tpc, dtypes, columns>>
vars == <<importVars, exportVars, argsVars, typesVars>>

None == "None"

(***************************************************************************)
(* Bounds                                                                  *)
(***************************************************************************)
\* files and query results span up to this many chunks
MaxChunks == 3
\* the same command line is run at most this many times in succession
MaxRuns == 2
\* a data frame has at most this many columns
MaxCols == 2

(***************************************************************************)
(* Import: upload_file.py                                                  *)
(***************************************************************************)
ChunkSize == 10000

Files == {"A", "B"}
Sources == Files \cup {"old"}
Methods == {"fail", "replace", "append"}

\* row counts (at least one row) that make 1..MaxChunks chunks, the last
\* one full or partial
Sizes == {(k - 1) * ChunkSize + 1 : k \in 1..MaxChunks}
             \cup {k * ChunkSize : k \in 1..MaxChunks}

\* pd.read_csv(path, chunksize=10000): the chunks of a file of n >= 1 rows
NumChunks(n) == (n + ChunkSize - 1) \div ChunkSize

ChunkRows(n, k) ==
    IF n - k * ChunkSize >= ChunkSize THEN ChunkSize
    ELSE IF n - k * ChunkSize > 0 THEN n - k * ChunkSize ELSE 0

NoRows == [s \in Sources |-> 0]
Absent == [exists |-> FALSE, rows |-> NoRows]
Table(rows) == [exists |-> TRUE, rows |-> rows]
Total(t) == t.rows["A"] + t.rows["B"] + t.rows["old"]

\* DataFrame.to_sql(table_name, if_exists=method): the outcome on table t of
\* writing n rows of source src
to_sql(t, method, src, n) ==
    IF t.exists
    THEN CASE method = "fail"    -> [ok |-> FALSE, t |-> t]
           [] method = "replace" -> [ok |-> TRUE, t |-> Table([NoRows EXCEPT ![src] = n])]
           [] OTHER              -> [ok |-> TRUE, t |-> Table([t.rows EXCEPT ![src] = @ + n])]
    ELSE [ok |-> TRUE, t |-> Table([NoRows EXCEPT ![src] = n])]

\* to_sql raising a storage error part-way: an append is rolled back; a
\* replace may already have dropped the table, a create may already have
\* made it
to_sql_error(t, method) ==
    {t} \cup (IF t.exists /\ method = "replace" THEN {Absent, Table(NoRows)} ELSE {})
        \cup (IF ~t.exists THEN {Table(NoRows)} ELSE {})

\* lines 180-183 / 204-207: the policy the chunk is written with
chunk_method(m, k) == IF m = "replace" /\ k > 0 THEN "append" ELSE m

\* line 177-178: CREATE TABLE IF NOT EXISTS <database>.<schema>.<table>
create_table(t) == IF t.exists THEN t ELSE Table(NoRows)

\* line 194-195: INSERT INTO <schema>.<table> (SELECT * FROM <table>)
copy_into(dst, src) ==
    Table([s \in Sources |-> dst.rows[s] + src.rows[s]])

\* find_all_file_matches: the matched files in discovery order
FileLists == {<<>>} \cup {<<f>> : f \in Files}
                 \cup {l \in Files \X Files : l[1] # l[2]}

CommandLines ==
    [match_type : {"exact_match"}, files : {<<f>> : f \in Files},
     insert_method : Methods, schema : {None, "analytics"}]
    \cup
    [match_type : {"regex_match"}, files : FileLists,
     insert_method : Methods, schema : {None, "analytics"}]

Databases ==
    [pub : {Absent, Table([NoRows EXCEPT !["old"] = 1])},
     sch : {Absent, Table([NoRows EXCEPT !["old"] = 1])}]

curFile == cmd.files[fileIdx]

\* main, lines 220-250: a run of the command line starts
upload_main ==
    /\ pc \in {"idle", "done"}
    /\ runs < MaxRuns
    /\ runs' = runs + 1
    /\ pc' = "main"
    /\ fileIdx' = 1
    /\ index' = 0
    /\ insert_method' = None
    /\ log' = <<>>
    /\ written' = 0
    /\ UNCHANGED <<fsize, db0, pub, sch, schema_exists, cmd>>
    /\ UNCHANGED <<exportVars, argsVars, typesVars>>

\* upload_data, lines 165-173: called with main's insert_method
upload_data ==
    /\ pc = "main"
    /\ fileIdx <= Len(cmd.files)
    /\ insert_method' = cmd.insert_method
    /\ schema_exists' = (schema_exists \/ cmd.schema # None)
    /\ index' = 0
    /\ written' = 0
    /\ pc' = "chunks"
    /\ UNCHANGED <<fsize, db0, pub, sch, cmd, runs, fileIdx, log>>
    /\ UNCHANGED <<exportVars, argsVars, typesVars>>

\* one iteration of the chunk loop whose to_sql returns or raises by policy
upload_data_chunk ==
    /\ pc = "chunks"
    /\ index < NumChunks(fsize[curFile])
    /\ LET m == chunk_method(insert_method, index)
           n == ChunkRows(fsize[curFile], index)
           r == to_sql(pub, m, curFile, n)
       IN /\ insert_method' = m
          /\ sch' = IF cmd.schema # None /\ index = 0 THEN create_table(sch) ELSE sch
          /\ pub' = r.t
          /\ log' = Append(log, [file |-> curFile, index |-> index, method |-> m, ok |-> r.ok])
          /\ IF r.ok
             THEN /\ index' = index + 1
                  /\ written' = written + n
                  /\ pc' = "chunks"
             ELSE /\ UNCHANGED <<index, written>>
                  /\ pc' = "failed"
    /\ UNCHANGED <<fsize, db0, schema_exists, cmd, runs, fileIdx>>
    /\ UNCHANGED <<exportVars, argsVars, typesVars>>

\* where the process goes when to_sql raises: nothing catches it
on_storage_error_mutant_continue == "chunks"

on_storage_error == "failed"

\* one iteration of the chunk loop whose to_sql raises a storage error
upload_data_chunk_error ==
    /\ pc = "chunks"
    /\ index < NumChunks(fsize[curFile])
    /\ LET m == chunk_method(insert_method, index)
       IN /\ insert_method' = m
          /\ sch' = IF cmd.schema # None /\ index = 0 THEN create_table(sch) ELSE sch
          /\ log' = Append(log, [file |-> curFile, index |-> index, method |-> m, ok |-> FALSE])
          /\ pub' \in to_sql_error(pub, m)
          /\ pc' = on_storage_error
          /\ index' = IF on_storage_error = "failed" THEN index ELSE index + 1
    /\ UNCHANGED <<fsize, db0, schema_exists, cmd, runs, fileIdx, written>>
    /\ UNCHANGED <<exportVars, argsVars, typesVars>>

\* lines 192-197 / 217: after the last chunk
upload_data_return ==
    /\ pc = "chunks"
    /\ index = NumChunks(fsize[curFile])
    /\ sch' = IF cmd.schema # None THEN copy_into(sch, pub) ELSE sch
    /\ fileIdx' = fileIdx + 1
    /\ pc' = "main"
    /\ UNCHANGED <<fsize, db0, pub, schema_exists, cmd, runs, index, insert_method,
                   log, written>>
    /\ UNCHANGED <<exportVars, argsVars, typesVars>>

\* line 263: every file is uploaded
upload_main_return ==
    /\ pc = "main"
    /\ fileIdx > Len(cmd.files)
    /\ pc' = "done"
    /\ UNCHANGED <<fsize, db0, pub, sch, schema_exists, cmd, runs, fileIdx, index,
                   insert_method, log, written>>
    /\ UNCHANGED <<exportVars, argsVars, typesVars>>

NextImport ==
    \/ upload_main
    \/ upload_data
    \/ upload_data_chunk
    \/ upload_data_chunk_error
    \/ upload_data_return
    \/ upload_main_return

(***************************************************************************)
(* Export: store_query_results.py                                          *)
(***************************************************************************)
\* A file is a sequence of segments: a line that was there before the run,
\* a header line, or the result rows lo..hi in cursor order.
OldLine == [kind |-> "old", lo |-> 0, hi |-> 0]
HeaderLine == [kind |-> "header", lo |-> 0, hi |-> 0]
Rows(lo, hi) == [kind |-> "rows", lo |-> lo, hi |-> hi]

NoFile == [exists |-> FALSE, lines |-> <<>>]
File(lines) == [exists |-> TRUE, lines |-> lines]

\* rows lo..hi written after the segments of l (adjacent row ranges are one)
AppendRows(l, lo, hi) ==
    IF hi < lo THEN l
    ELSE IF Len(l) > 0 /\ l[Len(l)].kind = "rows" /\ l[Len(l)].hi + 1 = lo
         THEN [l EXCEPT ![Len(l)].hi = hi]
         ELSE Append(l, Rows(lo, hi))

\* chunk.to_csv(path, mode=mode, header=header, index=False)
to_csv(f, mode, header, lo, hi) ==
    LET base == IF mode = "a" /\ f.exists THEN f.lines ELSE <<>>
        withHeader == IF header THEN Append(base, HeaderLine) ELSE base
    IN File(AppendRows(withHeader, lo, hi))

\* lines 76-85
convert_to_boolean(string) == string \in {"True", "true", "TRUE"}

\* lines 28-32: --file-header, default 'True'
FileHeaderFlags == {None, "True", "true", "TRUE", "False", "false", "0", ""}
args_file_header == IF xargs = None THEN "True" ELSE xargs

QuerySizes == Sizes

\* pd.read_sql_query(query, con, chunksize=10000): the number of chunks of
\* a result of nrows >= 1 rows
QueryChunks == (nrows + ChunkSize - 1) \div ChunkSize

\* main, lines 125-154: create_csv is called without file_header, so its
\* parameter takes the default of line 98
store_main ==
    /\ xpc = "idle"
    /\ file_header' = convert_to_boolean(args_file_header)
    /\ csv_header' = TRUE
    /\ i' = 1
    /\ xpc' = "chunks"
    /\ UNCHANGED <<xargs, nrows, file0, file>>
    /\ UNCHANGED <<importVars, argsVars, typesVars>>

\* create_csv, lines 103-116: one iteration of the loop
create_csv_chunk ==
    /\ xpc = "chunks"
    /\ i <= QueryChunks
    /\ LET lo == (i - 1) * ChunkSize + 1
           hi == IF i * ChunkSize < nrows THEN i * ChunkSize ELSE nrows
       IN file' = IF i = 1
                  THEN to_csv(file, "a", csv_header, lo, hi)
                  ELSE to_csv(file, "a", FALSE, lo, hi)
    /\ i' = i + 1
    /\ UNCHANGED <<xpc, xargs, nrows, file0, file_header, csv_header>>
    /\ UNCHANGED <<importVars, argsVars, typesVars>>

\* create_csv, lines 117-118, and main, line 156
create_csv_return ==
    /\ xpc = "chunks"
    /\ i > QueryChunks
    /\ xpc' = "done"
    /\ UNCHANGED <<xargs, nrows, file0, file, file_header, csv_header, i>>
    /\ UNCHANGED <<importVars, argsVars, typesVars>>

NextExport ==
    \/ store_main
    \/ create_csv_chunk
    \/ create_csv_return

(***************************************************************************)
(* Argument handling and the connection descriptor: both CLIs              *)
(***************************************************************************)
\* Python truthiness of an argparse value
Truthy(x) == x # None /\ x # ""

Flag == {None, "v"}
ArgLists ==
    [db_connection_url : {None, "url"}, host : Flag, database : Flag,
     username : Flag, password : Flag, port : {None, "5440"}]

\* line 17 / 16: --port, default '5439'
args_port == IF argv.port = None THEN "5439" ELSE argv.port

\* URL.create takes the port as an integer
int(p) == CASE p = "5439" -> 5439 [] p = "5440" -> 5440

\* upload_file.py lines 60-76, store_query_results.py lines 43-59: TRUE when
\* get_args returns args, FALSE when it ends in parser.error
get_args_returns ==
    /\ ~(/\ ~Truthy(argv.db_connection_url)
         /\ ~(Truthy(argv.host) \/ Truthy(argv.database) \/ Truthy(argv.username))
         /\ ~Truthy(environ))
    /\ ~(Truthy(argv.host) /\ ~(Truthy(argv.database) \/ Truthy(argv.username)))
    /\ ~(Truthy(argv.database) /\ ~(Truthy(argv.host) \/ Truthy(argv.username)))
    /\ ~(Truthy(argv.username) /\ ~(Truthy(argv.host) \/ Truthy(argv.username)))

NoDescriptor ==
    [form |-> "none", url |-> None, drivername |-> None, host |-> None,
     password |-> None, username |-> None, port |-> 0, database |-> None]

\* upload_file.py lines 79-81, store_query_results.py lines 120-122
create_connection_url(host, password, user, database, port) ==
    [form |-> "fields", url |-> None, drivername |-> "redshift+redshift_connector",
     host |-> host, password |-> password, username |-> user, port |-> port,
     database |-> database]

get_args ==
    /\ apc = "start"
    /\ apc' = IF get_args_returns THEN "parsed" ELSE "usage_error"
    /\ UNCHANGED <<cli, argv, environ, descriptor>>
    /\ UNCHANGED <<importVars, exportVars, typesVars>>

\* upload_file.main line 238 leaves port to its default 5439;
\* store_query_results.main line 139 passes args.port
main_create_engine ==
    /\ apc = "parsed"
    /\ descriptor' =
          IF cli = "upload_file"
          THEN create_connection_url(argv.host, argv.password, argv.username,
                                     argv.database, 5439)
          ELSE create_connection_url(argv.host, argv.password, argv.username,
                                     argv.database, int(args_port))
    /\ apc' = "engine"
    /\ UNCHANGED <<cli, argv, environ>>
    /\ UNCHANGED <<importVars, exportVars, typesVars>>

NextArgs ==
    \/ get_args
    \/ main_create_engine

(***************************************************************************)
(* Type mapping: upload_file.py map_datatypes, create_table_query          *)
(***************************************************************************)
Tags == {"object", "int64", "float64", "bool", "datetime64", "timedelta[ns]",
         "category", "datetime64[ns]", "timedelta64[ns]", "int32", "unknown_tag"}

\* lines 128-148
map_datatypes_mutant_bigint(pandas_type) ==
    CASE pandas_type = "object"        -> "VARCHAR(255)"
      [] pandas_type = "int64"         -> "BIGINT"
      [] pandas_type = "float64"       -> "FLOAT"
      [] pandas_type = "bool"          -> "BOOLEAN"
      [] pandas_type = "datetime64"    -> "DATETIME"
      [] pandas_type = "timedelta[ns]" -> "INTERVAL"
      [] pandas_type = "category"      -> "VARCHAR(255)"
      [] OTHER                         -> "VARCHAR(255)"

map_datatypes(pandas_type) ==
    IF pandas_type = "object" THEN "VARCHAR(255)"
    ELSE IF pandas_type = "int64" THEN "INT"
    ELSE IF pandas_type = "float64" THEN "FLOAT"
    ELSE IF pandas_type = "bool" THEN "BOOLEAN"
    ELSE IF pandas_type = "datetime64" THEN "DATETIME"
    ELSE IF pandas_type = "timedelta[ns]" THEN "INTERVAL"
    ELSE IF pandas_type = "category" THEN "VARCHAR(255)"
    ELSE "VARCHAR(255)"

DtypeLists == UNION {[1..n -> Tags] : n \in 0..MaxCols}

\* lines 150-162: one SQL type per column of the chunk, in column order
create_table_query ==
    /\ tpc = "start"
    /\ columns' = [k \in 1..Len(dtypes) |-> map_datatypes(dtypes[k])]
    /\ tpc' = "done"
    /\ UNCHANGED dtypes
    /\ UNCHANGED <<importVars, exportVars, argsVars>>

NextTypes ==
    \/ create_table_query

(***************************************************************************)
(* Specifications                                                          *)
(***************************************************************************)
InitImport ==
    /\ fsize \in [Files -> Sizes]
    /\ db0 \in Databases
    /\ pub = db0.pub
    /\ sch = db0.sch
    /\ schema_exists = db0.sch.exists
    /\ cmd \in CommandLines
    /\ runs = 0
    /\ pc = "idle"
    /\ fileIdx = 0
    /\ index = 0
    /\ insert_method = None
    /\ log = <<>>
    /\ written = 0
    /\ xpc = "off" /\ xargs = None /\ nrows = 0 /\ file0 = NoFile /\ file = NoFile
    /\ file_header = FALSE /\ csv_header = FALSE /\ i = 0
    /\ apc = "off" /\ cli = None /\ argv = None /\ environ = None
    /\ descriptor = NoDescriptor
    /\ tpc = "off" /\ dtypes = <<>> /\ columns = <<>>

InitExport ==
    /\ fsize = [f \in Files |-> 1]
    /\ db0 = [pub |-> Absent, sch |-> Absent]
    /\ pub = Absent
    /\ sch = Absent
    /\ schema_exists = FALSE
    /\ cmd = [match_type |-> "exact_match", files |-> <<"A">>,
              insert_method |-> "append", schema |-> None]
    /\ runs = 0
    /\ pc = "off"
    /\ fileIdx = 0
    /\ index = 0
    /\ insert_method = None
    /\ log = <<>>
    /\ written = 0
    /\ xpc = "idle"
    /\ xargs \in FileHeaderFlags
    /\ nrows \in QuerySizes
    /\ file0 \in {NoFile, File(<<>>), File(<<OldLine>>)}
    /\ file = file0
    /\ file_header = FALSE
    /\ csv_header = FALSE
    /\ i = 0
    /\ apc = "off" /\ cli = None /\ argv = None /\ environ = None
    /\ descriptor = NoDescriptor
    /\ tpc = "off" /\ dtypes = <<>> /\ columns = <<>>

InitArgs ==
    /\ fsize = [f \in Files |-> 1]
    /\ db0 = [pub |-> Absent, sch |-> Absent]
    /\ pub = Absent
    /\ sch = Absent
    /\ schema_exists = FALSE
    /\ cmd = [match_type |-> "exact_match", files |-> <<"A">>,
              insert_method |-> "append", schema |-> None]
    /\ runs = 0
    /\ pc = "off"
    /\ fileIdx = 0
    /\ index = 0
    /\ insert_method = None
    /\ log = <<>>
    /\ written = 0
    /\ xpc = "off" /\ xargs = None /\ nrows = 0 /\ file0 = NoFile /\ file = NoFile
    /\ file_header = FALSE /\ csv_header = FALSE /\ i = 0
    /\ apc = "start"
    /\ cli \in {"upload_file", "store_query_results"}
    /\ argv \in ArgLists
    /\ environ \in {None, "env_url"}
    /\ descriptor = NoDescriptor
    /\ tpc = "off" /\ dtypes = <<>> /\ columns = <<>>

InitTypes ==
    /\ fsize = [f \in Files |-> 1]
    /\ db0 = [pub |-> Absent, sch |-> Absent]
    /\ pub = Absent
    /\ sch = Absent
    /\ schema_exists = FALSE
    /\ cmd = [match_type |-> "exact_match", files |-> <<"A">>,
              insert_method |-> "append", schema |-> None]
    /\ runs = 0
    /\ pc = "off"
    /\ fileIdx = 0
    /\ index = 0
    /\ insert_method = None
    /\ log = <<>>
    /\ written = 0
    /\ xpc = "off" /\ xargs = None /\ nrows = 0 /\ file0 = NoFile /\ file = NoFile
    /\ file_header = FALSE /\ csv_header = FALSE /\ i = 0
    /\ apc = "off" /\ cli = None /\ argv = None /\ environ = None
    /\ descriptor = NoDescriptor
    /\ tpc = "start"
    /\ dtypes \in DtypeLists
    /\ columns = <<>>

SpecImport == InitImport /\ [][NextImport]_vars

SpecExport == InitExport /\ [][NextExport]_vars

SpecArgs == InitArgs /\ [][NextArgs]_vars

SpecTypes == InitTypes /\ [][NextTypes]_vars

(***************************************************************************)
(* Properties                                                              *)
(***************************************************************************)
\* the table the import is meant to fill
Destination == IF cmd.schema = None THEN pub ELSE sch

\* rows of an n-row file held by its chunks 0..k-1
RowsBefore(n, k) == IF k * ChunkSize < n THEN k * ChunkSize ELSE n

\* C1: for every requested policy, every chunk with index > 0 is written
\* with the append policy.
C1_LaterChunksAppend ==
    \A k \in 1..Len(log) : log[k].index > 0 => log[k].method = "append"

\* C1 (the part the code keeps): a requested 'replace' is applied at chunk 0
\* only, and 'append' throughout.
C1_ReplaceOnlyAtChunkZero ==
    \A k \in 1..Len(log) :
        /\ log[k].index = 0 => log[k].method = cmd.insert_method
        /\ (log[k].index > 0 /\ cmd.insert_method # "fail") => log[k].method = "append"

\* C2: after an import into a schema returns, <schema>.<table> holds all
\* rows of every imported file and public.<table> no longer exists.
C2_StagingDropped ==
    (pc = "done" /\ cmd.schema # None /\ Len(cmd.files) > 0) =>
        /\ \A k \in 1..Len(cmd.files) : sch.rows[cmd.files[k]] >= fsize[cmd.files[k]]
        /\ ~pub.exists

\* C2 (the part the code keeps): the rows of the last file reach the schema.
C2_RowsCopied ==
    (pc = "done" /\ cmd.schema # None /\ Len(cmd.files) > 0) =>
        sch.rows[cmd.files[Len(cmd.files)]] >= fsize[cmd.files[Len(cmd.files)]]

\* C3: importing the same N-row file twice into an absent destination leaves
\* 2N rows under 'append' and N rows under 'replace', with or without schema.
C3_ImportTwice ==
    (/\ pc = "done" /\ runs = 2
     /\ cmd.match_type = "exact_match"
     /\ ~db0.pub.exists /\ ~db0.sch.exists) =>
        LET N == fsize[cmd.files[1]]
        IN /\ cmd.insert_method = "append" => Total(Destination) = 2 * N
           /\ cmd.insert_method = "replace" => Total(Destination) = N

\* C3 (the part the code keeps): the same, when no schema is set.
C3_ImportTwiceNoSchema ==
    (/\ pc = "done" /\ runs = 2
     /\ cmd.match_type = "exact_match" /\ cmd.schema = None
     /\ ~db0.pub.exists) =>
        LET N == fsize[cmd.files[1]]
        IN /\ cmd.insert_method = "append" => Total(pub) = 2 * N
           /\ cmd.insert_method = "replace" => Total(pub) = N

\* C8: in regex_match mode with policy 'replace', after the files are
\* imported in sequence the destination holds only the rows of the
\* last-processed file.
C8_LastFileOnly ==
    (/\ pc = "done"
     /\ cmd.match_type = "regex_match" /\ cmd.insert_method = "replace"
     /\ Len(cmd.files) > 0) =>
        LET last == cmd.files[Len(cmd.files)]
        IN Destination.rows = [NoRows EXCEPT ![last] = fsize[last]]

\* C8 (the part the code keeps): the same, when no schema is set.
C8_LastFileOnlyNoSchema ==
    (/\ pc = "done" /\ cmd.schema = None
     /\ cmd.match_type = "regex_match" /\ cmd.insert_method = "replace"
     /\ Len(cmd.files) > 0) =>
        LET last == cmd.files[Len(cmd.files)]
        IN pub.rows = [NoRows EXCEPT ![last] = fsize[last]]

\* C9: a failed chunk write is the last write of the run (no later chunk, no
\* later file, no retry), the process has ended there, and the rows of the
\* chunks of that file written before it are still in the table.
C9_FailedWriteAborts ==
    /\ \A k \in 1..Len(log) : ~log[k].ok => (k = Len(log) /\ pc = "failed")
    /\ pc = "failed" =>
        /\ Len(log) > 0
        /\ ~log[Len(log)].ok
        /\ log[Len(log)].file = curFile
        /\ log[Len(log)].index = index
        /\ written = RowsBefore(fsize[curFile], index)
        /\ index > 0 => (pub.exists /\ pub.rows[curFile] >= written)

\* a write fails after a chunk was written, with a chunk and a file to come
C9_Witness ==
    /\ pc = "failed"
    /\ index >= 1
    /\ written > 0
    /\ index + 1 < NumChunks(fsize[curFile])
    /\ fileIdx < Len(cmd.files)

\* C4: when create_csv has completed, the file is exactly the header line
\* (when the header is enabled) followed by the result rows in cursor order,
\* whatever the path held before.
C4_FileIsHeaderAndRows ==
    xpc = "done" =>
        file = File(AppendRows(IF csv_header THEN <<HeaderLine>> ELSE <<>>, 1, nrows))

\* C4 (the part the code keeps): the same, when the path held nothing.
C4_FreshFileIsHeaderAndRows ==
    (xpc = "done" /\ file0.lines = <<>>) =>
        file = File(AppendRows(IF csv_header THEN <<HeaderLine>> ELSE <<>>, 1, nrows))

HeaderLines(f) == {k \in 1..Len(f.lines) : f.lines[k].kind = "header"}

\* C5: the export writes a header row if and only if --file-header
\* converts to true, and then once, as the first line written.
C5_HeaderFollowsFlag ==
    xpc = "done" =>
        IF args_file_header \in {"True", "true", "TRUE"}
        THEN HeaderLines(file) = {Len(file0.lines) + 1}
        ELSE HeaderLines(file) = {}

\* C6: get_args returns only if --db-connection-url is given, or --host,
\* --database and --username all are, or DB_CONNECTION_URL is preset.
C6_GetArgsValidates ==
    apc \in {"parsed", "engine"} =>
        \/ Truthy(argv.db_connection_url)
        \/ Truthy(argv.host) /\ Truthy(argv.database) /\ Truthy(argv.username)
        \/ Truthy(environ)

\* C7: the descriptor main builds is the supplied connection string when one
\* is given, otherwise the supplied fields with the supplied port (5439 when
\* omitted); a command line with neither form does not get that far.
C7_DescriptorFromSuppliedForm ==
    apc = "engine" =>
        IF Truthy(argv.db_connection_url)
        THEN descriptor.form = "url" /\ descriptor.url = argv.db_connection_url
        ELSE IF Truthy(argv.host) /\ Truthy(argv.database) /\ Truthy(argv.username)
        THEN /\ descriptor.form = "fields"
             /\ descriptor.host = argv.host
             /\ descriptor.username = argv.username
             /\ descriptor.password = argv.password
             /\ descriptor.database = argv.database
             /\ descriptor.port = IF argv.port = None THEN 5439 ELSE int(argv.port)
        ELSE Truthy(environ)

====
